---- MODULE Spec2Model ----
(***************************************************************************)
(* POSIX shared memory segments of tools/utils/shm (darwin/freebsd         *)
(* backend): CreateTemp, Open and the handle operations Close and Unlink,  *)
(* run by concurrent callers against one kernel shared-memory namespace.   *)
(* Every step of a caller is one system call together with the local       *)
(* computation that follows it up to the next system call.                 *)
(*                                                                         *)
(* Strings are sequences of one-character strings.  A uint32 is kept as    *)
(* its eight hexadecimal nibbles, most significant first.                  *)
(***************************************************************************)
EXTENDS Integers, Sequences, FiniteSets, TLC

\* ------------------------------------------------------------- bounds

\* CreateTemp/Open calls made in one run, by all callers together
MaxCalls == 2
\* requested sizes are 0..MaxSize
MaxSize == 1
\* random draws are 15*n for n in 0..MaxRand, and 0xffffffff
MaxRand == 0
\* draws of an already registered name one create_temp gets while an
\* unregistered candidate is left (when none is left every draw collides)
MaxCollide == 1
\* the bytes a caller stores through Slice() are 0..MaxByte
MaxByte == 1

Procs == {1, 2}

VARIABLES
  platform,  \* "darwin" or "freebsd": the build the constants come from
  callers,   \* the callers that run
  patterns,  \* the patterns they call CreateTemp with
  shm,       \* kernel shared-memory namespace: name -> [size, data]
  fsys,      \* filesystem namespace: path -> [size]
  fds,       \* per caller: the open descriptors, records [fd, name]
  vm,        \* per caller: the mappings of its address space
  handles,   \* per caller: the syscall_based_mmap objects it was returned
  pc,        \* per caller: where it stands
  err,       \* per caller: the error its last operation returned, nil while one runs
  loc,       \* per caller: the running operation and its local variables
  ncalls     \* CreateTemp/Open calls made so far

vars == <<platform, callers, patterns, shm, fsys, fds, vm, handles, pc, err, loc, ncalls>>

\* ------------------------------------------------------------ strings

Rep(c, n) == [i \in 1..n |-> c]

HasPrefix(s, p) == Len(s) >= Len(p) /\ SubSeq(s, 1, Len(p)) = p

\* the index of the first c instead of the last
FirstIndexByte(s, c) ==
  IF \E i \in 1..Len(s) : s[i] = c
  THEN CHOOSE i \in 1..Len(s) : s[i] = c /\ \A j \in 1..(i-1) : s[j] # c
  ELSE 0

\* strings.LastIndexByte, 1-based; 0 stands for -1
LastIndexByte(s, c) ==
  IF \E i \in 1..Len(s) : s[i] = c
  THEN CHOOSE i \in 1..Len(s) : s[i] = c /\ \A j \in (i+1)..Len(s) : s[j] # c
  ELSE 0

\* a separator test that knows the backslash only
IsPathSeparatorBackslash(c) == c = "\\"

\* os.IsPathSeparator on unix
IsPathSeparator(c) == c = "/"

HexDigits == <<"0","1","2","3","4","5","6","7","8","9","a","b","c","d","e","f">>

\* the eight nibbles of n, for 0 <= n < 2^31
Nibbles(n) == [i \in 1..8 |-> (n \div (16^(8-i))) % 16]

\* a formatting that pads with zeros to eight digits
FormatUint16Padded(nib) == [k \in 1..8 |-> HexDigits[nib[k] + 1]]

\* strconv.FormatUint(num, 16): lowercase, no leading zeros, "0" for zero
FormatUint16(nib) ==
  IF \A i \in 1..8 : nib[i] = 0 THEN <<"0">>
  ELSE LET first == CHOOSE i \in 1..8 : nib[i] # 0 /\ \A j \in 1..(i-1) : nib[j] = 0
       IN  [k \in 1..(9 - first) |-> HexDigits[nib[first + k - 1] + 1]]

\* the values rand.Uint32() is drawn from
RandVals == {Nibbles(15 * n) : n \in 0..MaxRand} \cup {[i \in 1..8 |-> 15]}

\* next_random() with the drawn number
next_random(num) == FormatUint16(num)

\* ---------------------------------------------------------- constants

\* platform constants (specific_<os>.go)
SHM_NAME_MAX == IF platform = "darwin" THEN 30 ELSE 1023
SHM_REQUIRED_PREFIX == IF platform = "darwin" THEN <<>> ELSE <<"/">>

\* the retry bound of create_temp
MaxTries == 10000

\* create_temp's flags without O_EXCL
CreateFlagsNoExcl == {"O_CREATE", "O_RDWR"}

\* the flags create_temp passes to shm_open
CreateFlags == {"O_EXCL", "O_CREATE", "O_RDWR"}

\* Open's flags with O_CREATE among them
OpenFlagsCreate == {"O_CREATE"}

\* the flags Open passes to shm_open: O_RDONLY
OpenFlags == {}

\* the second argument of shm_unlink's trap: 0
UnlinkFlags == {}

\* the trap shm_unlink issues
UnlinkTrap == "SYS_SHM_OPEN"

\* ------------------------------------------------------------- errors

NilErr == [kind |-> "nil", wraps |-> "", op |-> "", path |-> <<>>]
ErrPatternHasSeparator ==
  [kind |-> "ErrPatternHasSeparator", wraps |-> "", op |-> "", path |-> <<>>]
ErrPatternTooLong ==
  [kind |-> "ErrPatternTooLong", wraps |-> "", op |-> "", path |-> <<>>]
\* fmt.Errorf(msg + ": %w", cause)
Errorf(msg, cause) == [kind |-> msg, wraps |-> cause, op |-> "", path |-> <<>>]
PathError(o, p, e) == [kind |-> "PathError", wraps |-> e, op |-> o, path |-> p]

\* prefix_and_suffix(pattern)
prefix_and_suffix(pat) ==
  IF \E i \in 1..Len(pat) : IsPathSeparator(pat[i])
  THEN [prefix |-> <<>>, suffix |-> <<>>, err |-> ErrPatternHasSeparator]
  ELSE LET pos == LastIndexByte(pat, "*")
       IN  IF pos # 0
           THEN [prefix |-> SubSeq(pat, 1, pos - 1),
                 suffix |-> SubSeq(pat, pos + 1, Len(pat)), err |-> NilErr]
           ELSE [prefix |-> pat, suffix |-> <<>>, err |-> NilErr]

\* create_temp, lines 114-117: the required prefix is put before prefix
WithRequiredPrefix(pat, pre) ==
  IF SHM_REQUIRED_PREFIX # <<>> /\ ~HasPrefix(pat, SHM_REQUIRED_PREFIX)
  THEN SHM_REQUIRED_PREFIX \o pre
  ELSE pre

\* ------------------------------------------------------------- inputs

Wild == <<"k", "*", "z">>

\* an ordinary pattern and one with a path separator
ShortPatterns == {Wild, <<"a", "/", "*">>}

\* the longest pattern a one-digit suffix still fits, and one nothing fits
LongPatterns ==
  LET room == SHM_NAME_MAX - Len(SHM_REQUIRED_PREFIX)
  IN  {Rep("a", room - 1) \o <<"*">>, Rep("a", room) \o <<"*">>}

\* a pattern with two wildcards and one with none
StarPatterns == {<<"*", "k", "*">>, <<"k">>}

\* the names create_temp generates with the prefix pre and the suffix suf
Names(pre, suf) == {pre \o next_random(num) \o suf : num \in RandVals}

\* the names Open is called with: those CreateTemp(Wild) may return
OpenNames == Names(SHM_REQUIRED_PREFIX \o <<"k">>, <<"z">>)

\* -------------------------------------------------------------- kernel

\* a freshly created shared-memory object
NewObject == [size |-> 0, data |-> <<>>]

\* ftruncate(2) on an object: cut, or extend with zero bytes
Resize(obj, n) ==
  [size |-> n, data |-> [i \in 1..n |-> IF i <= obj.size THEN obj.data[i] ELSE 0]]

\* the lowest descriptor number the caller has not open
NewFd(p) ==
  CHOOSE n \in 3..(3 + Cardinality(fds[p])) :
    /\ \A d \in fds[p] : d.fd # n
    /\ \A m \in 3..(n-1) : \E d \in fds[p] : d.fd = m

\* the kernel's answer to shm_open(nm, flags): an errno, "" for success
ShmOpenErrno(nm, flags) ==
  IF nm \in DOMAIN shm
  THEN IF {"O_EXCL", "O_CREATE"} \subseteq flags THEN "EEXIST" ELSE ""
  ELSE IF "O_CREATE" \in flags THEN "" ELSE "ENOENT"

\* the namespace after a successful shm_open(nm, flags)
ShmOpened(nm, flags) ==
  IF nm \in DOMAIN shm THEN shm ELSE shm @@ (nm :> NewObject)

NoFile == [fd |-> 0, name |-> <<>>, closed |-> TRUE]
\* os.NewFile(fd, name)
NewFile(fd, nm) == [fd |-> fd, name |-> nm, closed |-> FALSE]

NilRegion == [nil |-> TRUE, len |-> 0, name |-> <<>>, prot |-> {}, flags |-> "NONE"]

\* mmap(sz, access, fd, off): protection and flags by access mode
mmap(sz, access, file) ==
  [nil   |-> FALSE,
   len   |-> sz,
   name  |-> file.name,
   prot  |-> IF access \in {"WRITE", "COPY"} THEN {"PROT_READ", "PROT_WRITE"}
             ELSE {"PROT_READ"},
   flags |-> IF access = "COPY" THEN "MAP_PRIVATE" ELSE "MAP_SHARED"]

\* os.Remove(path): the filesystem entry, if there is one
OsRemove(path) == [q \in DOMAIN fsys \ {path} |-> fsys[q]]

\* os.File.Close on the caller's descriptor table
CloseFd(p, file) == {d \in fds[p] : d.fd # file.fd}

\* Slice()
Slice(h) == h.region
\* Name()
Name(h) == h.f.name

\* ---------------------------------------------------------------- state

\* no operation runs: the locals of the last one are gone
NoLocals ==
  [op |-> "none", pattern |-> <<>>, size |-> 0, prefix |-> <<>>, suffix |-> <<>>,
   name |-> <<>>, try |-> 0, f |-> NoFile, cur |-> 0, intr |-> FALSE,
   issued |-> {}, attempts |-> 0, fds0 |-> {}]

InitCommon ==
  /\ platform \in {"darwin", "freebsd"}
  /\ fsys = (SHM_REQUIRED_PREFIX \o <<"k", "0", "z">>) :> [size |-> 1]
  /\ fds = [p \in Procs |-> {}]
  /\ vm = [p \in Procs |-> {}]
  /\ handles = [p \in Procs |-> <<>>]
  /\ pc = [p \in Procs |-> "idle"]
  /\ err = [p \in Procs |-> NilErr]
  /\ loc = [p \in Procs |-> NoLocals]

\* concurrent callers, short patterns, nothing registered
Init ==
  /\ InitCommon
  /\ callers = Procs
  /\ patterns = ShortPatterns
  /\ shm = <<>>
  /\ ncalls = 0

\* one caller with one call, all the patterns; nothing is registered, or
\* every name of the ordinary pattern was registered by others before
InitSolo ==
  /\ InitCommon
  /\ callers = {1}
  /\ patterns = ShortPatterns \cup LongPatterns \cup StarPatterns
  /\ shm \in {<<>>, [nm \in OpenNames |-> Resize(NewObject, 1)]}
  /\ ncalls = MaxCalls - 1

\* the operation returns e to its caller
Return(p, e) ==
  /\ pc' = [pc EXCEPT ![p] = "idle"]
  /\ err' = [err EXCEPT ![p] = e]
  /\ loc' = [loc EXCEPT ![p] = NoLocals]

\* the locals of a public operation o as it is entered
Entered(p, o) == [NoLocals EXCEPT !.op = o, !.fds0 = fds[p]]

\* a system call interrupted by a signal: the retry loop around it goes round
\* and keeps nothing but intr, which the model has to tell that it went round
Interrupted(p) ==
  loc' = [loc EXCEPT ![p].intr = TRUE]

\* what rand.Uint32() may return to create_temp: a draw of a registered name
\* is had at most MaxCollide times, unless every candidate is registered
Draws(p) ==
  {num \in RandVals :
     \/ loc[p].prefix \o next_random(num) \o loc[p].suffix \notin DOMAIN shm
     \/ loc[p].try < MaxCollide
     \/ Names(loc[p].prefix, loc[p].suffix) \subseteq DOMAIN shm}

\* a length check that lets a name of SHM_NAME_MAX + 1 through
TooLongLate(nm) == Len(nm) > SHM_NAME_MAX + 1

\* create_temp, line 122
TooLong(nm) == Len(nm) > SHM_NAME_MAX

\* a retry bound that is one too large
ExhaustedLate(t) == t > MaxTries + 1

\* create_temp, line 128
Exhausted(t) == t > MaxTries

\* ----------------------------------------------------------- CreateTemp

\* CreateTemp(pattern, size) is called
CreateTemp(p) ==
  /\ p \in callers
  /\ pc[p] = "idle"
  /\ ncalls < MaxCalls
  /\ \E pat \in patterns, sz \in 0..MaxSize :
       loc' = [loc EXCEPT ![p] =
                 [Entered(p, "CreateTemp") EXCEPT !.pattern = pat, !.size = sz]]
  /\ pc' = [pc EXCEPT ![p] = "create_temp"]
  /\ err' = [err EXCEPT ![p] = NilErr]
  /\ ncalls' = ncalls + 1
  /\ UNCHANGED <<platform, callers, patterns, shm, fsys, fds, vm, handles>>

\* create_temp, lines 109-119
Split(p) ==
  /\ pc[p] = "create_temp"
  /\ LET ps == prefix_and_suffix(loc[p].pattern)
     IN  IF ps.err # NilErr
         THEN Return(p, ps.err)
         ELSE /\ loc' = [loc EXCEPT
                   ![p].prefix = WithRequiredPrefix(loc[p].pattern, ps.prefix),
                   ![p].suffix = ps.suffix,
                   ![p].try = 0]
              /\ pc' = [pc EXCEPT ![p] = "loop"]
              /\ UNCHANGED err
  /\ UNCHANGED <<platform, callers, patterns, shm, fsys, fds, vm, handles, ncalls>>

\* create_temp, lines 121-124: the next candidate and its length check
Candidate(p) ==
  /\ pc[p] = "loop"
  /\ \E num \in Draws(p) :
       LET nm == loc[p].prefix \o next_random(num) \o loc[p].suffix
       IN  IF TooLong(nm)
           THEN Return(p, ErrPatternTooLong)
           ELSE /\ loc' = [loc EXCEPT ![p].name = nm]
                /\ pc' = [pc EXCEPT ![p] = "shm_open_excl"]
                /\ UNCHANGED err
  /\ UNCHANGED <<platform, callers, patterns, shm, fsys, fds, vm, handles, ncalls>>

\* shm_open(name, O_EXCL|O_CREATE|O_RDWR, 0600) is interrupted: lines 49-51
ShmOpenExclEintr(p) ==
  /\ pc[p] = "shm_open_excl"
  /\ Interrupted(p)
  /\ UNCHANGED <<platform, callers, patterns, shm, fsys, fds, vm, handles, pc, err, ncalls>>

\* shm_open finds the name registered: lines 126-132
ShmOpenExclExists(p) ==
  /\ pc[p] = "shm_open_excl"
  /\ ShmOpenErrno(loc[p].name, CreateFlags) = "EEXIST"
  /\ IF Exhausted(loc[p].try + 1)
     THEN Return(p, PathError("createtemp",
                              loc[p].prefix \o <<"*">> \o loc[p].suffix, "ErrExist"))
     ELSE /\ loc' = [loc EXCEPT ![p].try = @ + 1,
                                ![p].attempts = @ + 1,
                                ![p].intr = FALSE, ![p].issued = @ \cup {"shm_open"}]
          /\ pc' = [pc EXCEPT ![p] = "loop"]
          /\ UNCHANGED err
  /\ UNCHANGED <<platform, callers, patterns, shm, fsys, fds, vm, handles, ncalls>>

\* shm_open returns a descriptor: lines 125, 133; the name is registered if it
\* was not
ShmOpenExclCreates(p) ==
  /\ pc[p] = "shm_open_excl"
  /\ ShmOpenErrno(loc[p].name, CreateFlags) = ""
  /\ LET fd == NewFd(p)
     IN  /\ shm' = ShmOpened(loc[p].name, CreateFlags)
         /\ fds' = [fds EXCEPT ![p] = @ \cup {[fd |-> fd, name |-> loc[p].name]}]
         /\ loc' = [loc EXCEPT ![p].f = NewFile(fd, loc[p].name),
                               ![p].attempts = @ + 1,
                               ![p].intr = FALSE, ![p].issued = @ \cup {"shm_open"}]
  /\ pc' = [pc EXCEPT ![p] = "ftruncate"]
  /\ UNCHANGED <<platform, callers, patterns, fsys, vm, handles, err, ncalls>>

\* a create_temp that takes every error of shm_open for "already exists"
ShmOpenExclFailsRetry(p) ==
  /\ pc[p] = "shm_open_excl"
  /\ IF Exhausted(loc[p].try + 1)
     THEN Return(p, PathError("createtemp",
                              loc[p].prefix \o <<"*">> \o loc[p].suffix, "ErrExist"))
     ELSE /\ loc' = [loc EXCEPT ![p].try = @ + 1,
                                ![p].attempts = @ + 1,
                                ![p].intr = FALSE, ![p].issued = @ \cup {"shm_open"}]
          /\ pc' = [pc EXCEPT ![p] = "loop"]
          /\ UNCHANGED err
  /\ UNCHANGED <<platform, callers, patterns, shm, fsys, fds, vm, handles, ncalls>>

\* shm_open fails with another errno: lines 135-137
ShmOpenExclFails(p) ==
  /\ pc[p] = "shm_open_excl"
  /\ Return(p, Errorf("shm_open() failed with error", "EMFILE"))
  /\ UNCHANGED <<platform, callers, patterns, shm, fsys, fds, vm, handles, ncalls>>

\* a truncate_or_unlink that gives up at the first EINTR
FtruncateEintrSurfaced(p) ==
  /\ pc[p] = "ftruncate"
  /\ fds' = [fds EXCEPT ![p] = CloseFd(p, loc[p].f)]
  /\ fsys' = OsRemove(loc[p].f.name)
  /\ Return(p, Errorf("truncate failed with error", "EINTR"))
  /\ UNCHANGED <<platform, callers, patterns, shm, vm, handles, ncalls>>

\* truncate_or_unlink: ftruncate is interrupted, lines 93-98
FtruncateEintr(p) ==
  /\ pc[p] = "ftruncate"
  /\ Interrupted(p)
  /\ UNCHANGED <<platform, callers, patterns, shm, fsys, fds, vm, handles, pc, err, ncalls>>

\* truncate_or_unlink: ftruncate sets the object's size
FtruncateOk(p) ==
  /\ pc[p] = "ftruncate"
  /\ shm' = [shm EXCEPT ![loc[p].f.name] = Resize(@, loc[p].size)]
  /\ loc' = [loc EXCEPT ![p].intr = FALSE, ![p].issued = @ \cup {"ftruncate"}]
  /\ pc' = [pc EXCEPT ![p] = "mmap"]
  /\ UNCHANGED <<platform, callers, patterns, fsys, fds, vm, handles, err, ncalls>>

\* what truncate_or_unlink does when ftruncate failed, lines 99-103:
\* ans.Close() and os.Remove(ans.Name())
TruncateCleanup(p) ==
  /\ fds' = [fds EXCEPT ![p] = CloseFd(p, loc[p].f)]
  /\ fsys' = OsRemove(loc[p].f.name)
  /\ UNCHANGED shm

\* truncate_or_unlink: ftruncate fails; syscall_mmap lines 72-75
FtruncateFails(p) ==
  /\ pc[p] = "ftruncate"
  /\ TruncateCleanup(p)
  /\ Return(p, Errorf("truncate failed with error", "EINVAL"))
  /\ UNCHANGED <<platform, callers, patterns, vm, handles, ncalls>>

\* ------------------------------------------------------------------ Open

\* Open(name) is called
Open(p) ==
  /\ p \in callers
  /\ pc[p] = "idle"
  /\ ncalls < MaxCalls
  /\ \E nm \in OpenNames :
       loc' = [loc EXCEPT ![p] = [Entered(p, "Open") EXCEPT !.name = nm]]
  /\ pc' = [pc EXCEPT ![p] = "shm_open_ro"]
  /\ err' = [err EXCEPT ![p] = NilErr]
  /\ ncalls' = ncalls + 1
  /\ UNCHANGED <<platform, callers, patterns, shm, fsys, fds, vm, handles>>

\* shm_open(name, O_RDONLY, 0) is interrupted
ShmOpenRoEintr(p) ==
  /\ pc[p] = "shm_open_ro"
  /\ Interrupted(p)
  /\ UNCHANGED <<platform, callers, patterns, shm, fsys, fds, vm, handles, pc, err, ncalls>>

\* shm_open(name, O_RDONLY, 0) fails: ENOENT when the name is not registered,
\* or another errno; Open lines 143-145
ShmOpenRoFails(p) ==
  /\ pc[p] = "shm_open_ro"
  /\ LET errno == ShmOpenErrno(loc[p].name, OpenFlags)
     IN  Return(p, Errorf("shm_open() failed with error",
                          IF errno = "" THEN "EMFILE" ELSE errno))
  /\ UNCHANGED <<platform, callers, patterns, shm, fsys, fds, vm, handles, ncalls>>

\* shm_open(name, O_RDONLY, 0) returns a descriptor
ShmOpenRoOk(p) ==
  /\ pc[p] = "shm_open_ro"
  /\ ShmOpenErrno(loc[p].name, OpenFlags) = ""
  /\ LET fd == NewFd(p)
     IN  /\ shm' = ShmOpened(loc[p].name, OpenFlags)
         /\ fds' = [fds EXCEPT ![p] = @ \cup {[fd |-> fd, name |-> loc[p].name]}]
         /\ loc' = [loc EXCEPT ![p].f = NewFile(fd, loc[p].name),
                               ![p].intr = FALSE, ![p].issued = @ \cup {"shm_open"}]
  /\ pc' = [pc EXCEPT ![p] = "stat"]
  /\ UNCHANGED <<platform, callers, patterns, fsys, vm, handles, err, ncalls>>

\* os.Stat(name): the size of the filesystem entry of that path, -1 for none
OsStat(path) == IF path \in DOMAIN fsys THEN fsys[path].size ELSE -1

\* Open, lines 146-151
Stat(p) ==
  /\ pc[p] = "stat"
  /\ LET s == OsStat(loc[p].name)
     IN  IF s < 0
         THEN /\ fds' = [fds EXCEPT ![p] = CloseFd(p, loc[p].f)]
              /\ Return(p, PathError("stat", loc[p].name, "ENOENT"))
         ELSE /\ loc' = [loc EXCEPT ![p].size = s,
                                    ![p].issued = @ \cup {"stat"}]
              /\ pc' = [pc EXCEPT ![p] = "mmap"]
              /\ UNCHANGED <<fds, err>>
  /\ UNCHANGED <<platform, callers, patterns, shm, fsys, vm, handles, ncalls>>

\* ---------------------------------------------------------- syscall_mmap

\* the access mode syscall_mmap is called with: lines 138 and 151
Access(p) == IF loc[p].op = "CreateTemp" THEN "WRITE" ELSE "READ"

\* syscall_mmap, lines 77 and 83: the mapping is made and the handle returned.
\* unix.Mmap refuses a length <= 0 with EINVAL.
MmapOk(p) ==
  /\ pc[p] = "mmap"
  /\ loc[p].size > 0
  /\ LET region == mmap(loc[p].size, Access(p), loc[p].f)
     IN  /\ vm' = [vm EXCEPT ![p] = @ \cup {region}]
         /\ handles' = [handles EXCEPT ![p] =
              Append(@, [f |-> loc[p].f, region |-> region, unlinked |-> FALSE,
                         via |-> loc[p].op, ucalls |-> 0, traps |-> <<>>])]
  /\ Return(p, NilErr)
  /\ UNCHANGED <<platform, callers, patterns, shm, fsys, fds, ncalls>>

\* a cleanup that forgets f.Close()
MmapCleanupNoClose(p) ==
  /\ fds' = fds
  /\ fsys' = OsRemove(loc[p].f.name)
  /\ UNCHANGED shm

\* what syscall_mmap does when mmap failed, lines 79-80:
\* f.Close() and os.Remove(f.Name())
MmapCleanup(p) ==
  /\ fds' = [fds EXCEPT ![p] = CloseFd(p, loc[p].f)]
  /\ fsys' = OsRemove(loc[p].f.name)
  /\ UNCHANGED shm

\* syscall_mmap, lines 78-82: mmap fails
MmapFails(p) ==
  /\ pc[p] = "mmap"
  /\ MmapCleanup(p)
  /\ Return(p, Errorf("mmap failed with error",
                      IF loc[p].size > 0 THEN "ENOMEM" ELSE "EINVAL"))
  /\ UNCHANGED <<platform, callers, patterns, vm, handles, ncalls>>

\* ------------------------------------------------------ Unlink and Close

\* Unlink counts its calls on a handle as 0, 1, 2 or more
Counted(n) == IF n < 2 THEN n + 1 ELSE n

\* Unlink, lines 101-105: up to the system call of shm_unlink
Unlink(p) ==
  /\ pc[p] = "idle"
  /\ \E i \in 1..Len(handles[p]) :
       IF handles[p][i].unlinked
       THEN /\ handles' = [handles EXCEPT ![p][i].ucalls = Counted(@)]
            /\ Return(p, NilErr)
       ELSE /\ handles' = [handles EXCEPT ![p][i].ucalls = Counted(@),
                                          ![p][i].unlinked = TRUE]
            /\ loc' = [loc EXCEPT ![p] =
                 [Entered(p, "Unlink") EXCEPT !.cur = i,
                                              !.name = Name(handles[p][i])]]
            /\ pc' = [pc EXCEPT ![p] = "shm_unlink"]
            /\ err' = [err EXCEPT ![p] = NilErr]
  /\ UNCHANGED <<platform, callers, patterns, shm, fsys, fds, vm, ncalls>>

\* shm_unlink: the system call is interrupted, lines 33-35
ShmUnlinkEintr(p) ==
  /\ pc[p] = "shm_unlink"
  /\ Interrupted(p)
  /\ UNCHANGED <<platform, callers, patterns, shm, fsys, fds, vm, handles, pc, err, ncalls>>

\* what the kernel does for the trap of shm_unlink, line 34, when it
\* succeeds: SYS_SHM_OPEN with the arguments (name, 0, 0) opens the object
\* read-only and returns a descriptor, which shm_unlink drops
UnlinkEffect(p) ==
  /\ fds' = [fds EXCEPT ![p] = @ \cup {[fd |-> NewFd(p), name |-> loc[p].name]}]
  /\ shm' = ShmOpened(loc[p].name, UnlinkFlags)

\* shm_unlink: the system call succeeds, errno = 0
ShmUnlinkOk(p) ==
  /\ pc[p] = "shm_unlink"
  /\ ShmOpenErrno(loc[p].name, UnlinkFlags) = ""
  /\ UnlinkEffect(p)
  /\ handles' = [handles EXCEPT ![p][loc[p].cur].traps = Append(@, UnlinkTrap)]
  /\ Return(p, NilErr)
  /\ UNCHANGED <<platform, callers, patterns, fsys, vm, ncalls>>

\* shm_unlink: the system call fails, lines 36-38: ENOENT when the name is
\* not registered, or another errno
ShmUnlinkFails(p) ==
  /\ pc[p] = "shm_unlink"
  /\ LET errno == ShmOpenErrno(loc[p].name, UnlinkFlags)
     IN  Return(p, Errorf("shm_unlink() failed with error",
                          IF errno = "" THEN "EMFILE" ELSE errno))
  /\ handles' = [handles EXCEPT ![p][loc[p].cur].traps = Append(@, UnlinkTrap)]
  /\ UNCHANGED <<platform, callers, patterns, shm, fsys, fds, vm, ncalls>>

\* the bytes seen through a mapping: those of the object, as far as it reaches
Bytes(r) ==
  IF r.nil \/ r.name \notin DOMAIN shm THEN <<>>
  ELSE [i \in 1..r.len |-> IF i <= shm[r.name].size THEN shm[r.name].data[i] ELSE 0]

\* the caller stores bytes through the Slice() of a handle whose mapping is
\* shared and writable: the stores reach the object
Write(p) ==
  /\ pc[p] = "idle"
  /\ \E i \in 1..Len(handles[p]) :
       LET r == Slice(handles[p][i])
       IN  /\ ~r.nil
           /\ "PROT_WRITE" \in r.prot
           /\ r.flags = "MAP_SHARED"
           /\ r.name \in DOMAIN shm
           /\ \E b \in [1..r.len -> 0..MaxByte] :
                shm' = [shm EXCEPT ![r.name].data =
                          [k \in 1..shm[r.name].size |-> IF k <= r.len THEN b[k] ELSE @[k]]]
  /\ UNCHANGED <<platform, callers, patterns, fsys, fds, vm, handles, pc, err, loc, ncalls>>

\* a Close that closes the file and leaves region as it is
CloseKeepsRegion(p) ==
  /\ pc[p] = "idle"
  /\ \E i \in 1..Len(handles[p]) :
       LET h == handles[p][i]
       IN  /\ handles' = [handles EXCEPT ![p][i].f.closed = TRUE]
           /\ IF h.f.closed
              THEN /\ Return(p, PathError("close", h.f.name, "ErrClosed"))
                   /\ UNCHANGED fds
              ELSE /\ Return(p, NilErr)
                   /\ fds' = [fds EXCEPT ![p] = CloseFd(p, h.f)]
  /\ UNCHANGED <<platform, callers, patterns, shm, fsys, vm, ncalls>>

\* Close, lines 94-98: os.File.Close, then region = nil
Close(p) ==
  /\ pc[p] = "idle"
  /\ \E i \in 1..Len(handles[p]) :
       LET h == handles[p][i]
       IN  /\ handles' = [handles EXCEPT ![p][i].f.closed = TRUE,
                                         ![p][i].region = NilRegion]
           /\ IF h.f.closed
              THEN /\ Return(p, PathError("close", h.f.name, "ErrClosed"))
                   /\ UNCHANGED fds
              ELSE /\ Return(p, NilErr)
                   /\ fds' = [fds EXCEPT ![p] = CloseFd(p, h.f)]
  /\ UNCHANGED <<platform, callers, patterns, shm, fsys, vm, ncalls>>

\* ------------------------------------------------------------------ runs

\* the steps of CreateTemp
CreateStep(p) ==
  \/ CreateTemp(p)
  \/ Split(p)
  \/ Candidate(p)
  \/ ShmOpenExclEintr(p)
  \/ ShmOpenExclExists(p)
  \/ ShmOpenExclCreates(p)
  \/ ShmOpenExclFails(p)
  \/ FtruncateEintr(p)
  \/ FtruncateOk(p)
  \/ FtruncateFails(p)
  \/ MmapOk(p)
  \/ MmapFails(p)

\* the steps of Open, Unlink and Close, and the stores through Slice()
OtherStep(p) ==
  \/ Open(p)
  \/ ShmOpenRoEintr(p)
  \/ ShmOpenRoFails(p)
  \/ ShmOpenRoOk(p)
  \/ Stat(p)
  \/ Unlink(p)
  \/ ShmUnlinkEintr(p)
  \/ ShmUnlinkOk(p)
  \/ ShmUnlinkFails(p)
  \/ Close(p)
  \/ Write(p)

Next == \E p \in Procs : CreateStep(p) \/ OtherStep(p)

\* concurrent callers of all the operations
Spec == Init /\ [][Next]_vars

NextSolo == \E p \in Procs : CreateStep(p)

\* one call of CreateTemp, which the scheduler lets run
SpecSolo == InitSolo /\ [][NextSolo]_vars /\ \A p \in Procs : WF_vars(CreateStep(p))

\* concurrent callers of CreateTemp alone
SpecRace == Init /\ [][NextSolo]_vars

\* ---------------------------------------------------------------- claims

\* caller p takes a step
Steps(p) == <<pc[p], loc[p]>>' # <<pc[p], loc[p]>>

\* caller p returns from the operation o
Returns(p, o) == loc[p].op = o /\ pc[p] # "idle" /\ pc'[p] = "idle"

\* the handles CreateTemp returned, as <<caller, index>>
Created ==
  {x \in Procs \X (1..MaxCalls) :
     x[2] <= Len(handles[x[1]]) /\ handles[x[1]][x[2]].via = "CreateTemp"}

\* nm is the name of a handle CreateTemp returned and is registered
CreatedLinked(nm) ==
  /\ nm \in DOMAIN shm
  /\ \E x \in Created : Name(handles[x[1]][x[2]]) = nm

\* C1: no two handles that CreateTemp returned, to whichever callers and
\* under whatever interleaving of their shm_open calls, have the same name.
C1_UniqueNames ==
  \A x, y \in Created :
    x # y => Name(handles[x[1]][x[2]]) # Name(handles[y[1]][y[2]])

\* C1: a caller holds a handle while another, whose first candidate was
\* registered already, has created an object under a further candidate
C1_Witness ==
  \E p, q \in Procs :
    /\ p # q
    /\ \E x \in Created : x[1] = p
    /\ pc[q] = "ftruncate"
    /\ loc[q].try > 0
    /\ loc[q].pattern = Wild

\* C2: an Open of the name of a handle CreateTemp returned, the object still
\* registered, that got its descriptor returns a handle whose Slice() is as
\* long as the object (the size CreateTemp was called with); it fails only
\* when mmap runs out of memory.
C2_OpenAfterCreate ==
  [][\A p \in Procs :
       (/\ Returns(p, "Open")
        /\ pc[p] \in {"stat", "mmap"}
        /\ CreatedLinked(loc[p].name))
       => IF err'[p] = NilErr
          THEN LET h == handles'[p][Len(handles'[p])]
               IN  /\ Len(handles'[p]) = Len(handles[p]) + 1
                   /\ Name(h) = loc[p].name
                   /\ Slice(h).len = shm[loc[p].name].size
          ELSE err'[p].wraps = "ENOMEM"]_vars

\* C3: when Unlink returns nil after its system call, the name of the handle
\* is not registered any more.
C3_UnlinkRemoves ==
  [][\A p \in Procs :
       (Returns(p, "Unlink") /\ err'[p] = NilErr) => loc[p].name \notin DOMAIN shm']_vars

\* C4: a handle Unlink was called on twice or more has had the removal system
\* call issued for it exactly once.
C4_RemovedOnce ==
  \A p \in Procs : \A i \in 1..Len(handles[p]) :
    (pc[p] = "idle" /\ handles[p][i].ucalls >= 2)
    => Cardinality({k \in 1..Len(handles[p][i].traps) :
                      handles[p][i].traps[k] = "SYS_SHM_UNLINK"}) = 1

\* C5: when CreateTemp fails after shm_open created the object, at ftruncate
\* or at mmap, the name it created is not registered as it returns.
C5_FailedCreateRemoves ==
  [][\A p \in Procs :
       (/\ Returns(p, "CreateTemp")
        /\ pc[p] \in {"ftruncate", "mmap"}
        /\ err'[p] # NilErr)
       => loc[p].f.name \notin DOMAIN shm']_vars

\* C6: when CreateTemp or Open returns an error, the caller's open
\* descriptors are those it had when it made the call.
C6_NoDescriptorLeak ==
  [][\A p \in Procs :
       ((Returns(p, "CreateTemp") \/ Returns(p, "Open")) /\ err'[p] # NilErr)
       => fds'[p] = loc[p].fds0]_vars

\* C6: a call has failed at mmap, after its descriptor was opened, and the
\* caller has no descriptor open
C6_Witness ==
  \E p \in Procs :
    /\ pc[p] = "idle"
    /\ err[p].kind = "mmap failed with error"
    /\ fds[p] = {}

\* C7: CreateTemp with a pattern that holds a "/" returns
\* ErrPatternHasSeparator in its first step, having issued no system call and
\* leaving the namespace, the filesystem, the descriptors and the mappings
\* as they were.
C7_SeparatorRejected ==
  [][\A p \in Procs :
       (/\ loc[p].op = "CreateTemp"
        /\ \E i \in 1..Len(loc[p].pattern) : loc[p].pattern[i] = "/"
        /\ Steps(p))
       => /\ pc[p] = "create_temp"
          /\ pc'[p] = "idle"
          /\ err'[p] = ErrPatternHasSeparator
          /\ loc[p].issued = {}
          /\ <<shm, fsys, fds, vm, handles>>' = <<shm, fsys, fds, vm, handles>>]_vars

\* C7: a CreateTemp has returned ErrPatternHasSeparator
C7_Witness ==
  \E p \in Procs : pc[p] = "idle" /\ err[p] = ErrPatternHasSeparator

\* C8 as stated: while CreateTemp runs with a pattern whose longest name,
\* with eight hexadecimal digits, exceeds SHM_NAME_MAX, no shm_open of it has
\* succeeded, and it returns ErrPatternTooLong.
C8_LongestNameDecides ==
  [][\A p \in Procs :
       (/\ pc[p] \in {"loop", "shm_open_excl"}
        /\ Len(loc[p].prefix) + 8 + Len(loc[p].suffix) > SHM_NAME_MAX
        /\ Steps(p))
       => /\ loc'[p].f = NoFile
          /\ pc'[p] = "idle" => err'[p] = ErrPatternTooLong]_vars

\* C8 amended: the length check is made on each candidate.  A candidate
\* longer than SHM_NAME_MAX is never passed to shm_open: the call returns
\* ErrPatternTooLong at that draw.  So a pattern whose shortest name, with
\* one hexadecimal digit, exceeds SHM_NAME_MAX returns ErrPatternTooLong
\* with no shm_open called at all.
C8_EachCandidateChecked ==
  [][\A p \in Procs :
       (pc[p] = "loop" /\ Steps(p))
       => /\ pc'[p] = "shm_open_excl" => Len(loc'[p].name) <= SHM_NAME_MAX
          /\ pc'[p] = "idle" => err'[p] = ErrPatternTooLong
          /\ Len(loc[p].prefix) + 1 + Len(loc[p].suffix) > SHM_NAME_MAX
               => /\ pc'[p] = "idle"
                  /\ loc[p].attempts = 0
                  /\ loc[p].f = NoFile]_vars

\* C8: a CreateTemp has returned ErrPatternTooLong
C8_Witness ==
  \E p \in Procs : pc[p] = "idle" /\ err[p] = ErrPatternTooLong

\* what is left of a create_temp: the retries it may still make, then the
\* steps to its return
Rank(p) ==
  IF pc[p] = "idle" THEN 0
  ELSE (MaxTries + 1 - loc[p].try) * 8
       + (CASE pc[p] = "create_temp"   -> 7
            [] pc[p] = "loop"          -> 6
            [] pc[p] = "shm_open_excl" -> 5
            [] pc[p] = "ftruncate"     -> 4
            [] pc[p] = "mmap"          -> 3)

\* C9: a CreateTemp that has not returned can always take a step that brings
\* it nearer to its return, and every step of it that is not an interrupted
\* system call does; it has completed at most 10,000 shm_open calls when it
\* makes one; the shm_open after the 10,000th "already exists" is the last,
\* and CreateTemp then returns the error of op "createtemp", path
\* prefix*suffix, cause ErrExist.
C9_BoundedRetry ==
  /\ [](\A p \in Procs :
         (loc[p].op = "CreateTemp" /\ pc[p] # "idle")
         => ENABLED (CreateStep(p) /\ Rank(p)' < Rank(p)))
  /\ [][\A p \in Procs :
          (loc[p].op = "CreateTemp" /\ Steps(p))
          => /\ \/ Rank(p)' < Rank(p)
                \/ /\ loc'[p] = [loc[p] EXCEPT !.intr = TRUE]
                   /\ pc'[p] = pc[p]
             /\ loc[p].attempts <= 10000
             /\ loc'[p].attempts <= 10000
             /\ (pc[p] = "shm_open_excl" /\ loc[p].attempts = 10000)
                => pc'[p] # "loop"
             /\ (pc'[p] = "idle" /\ err'[p].kind = "PathError")
                => /\ loc[p].attempts = 10000
                   /\ err'[p] = PathError("createtemp",
                          loc[p].prefix \o <<"*">> \o loc[p].suffix, "ErrExist")]_vars

\* C9: a CreateTemp has given up with the error that carries the pattern
C9_Witness ==
  \E p \in Procs :
    /\ pc[p] = "idle"
    /\ err[p].kind = "PathError"
    /\ err[p].op = "createtemp"
    /\ err[p].path = SHM_REQUIRED_PREFIX \o Wild

\* C10: an Open whose shm_open finds the name not registered returns an
\* error and no handle, and leaves the namespace and the descriptors as
\* they were.
C10_OpenMissing ==
  [][\A p \in Procs :
       (/\ pc[p] = "shm_open_ro"
        /\ loc[p].name \notin DOMAIN shm
        /\ pc'[p] # pc[p])
       => /\ pc'[p] = "idle"
          /\ err'[p] # NilErr
          /\ <<shm, fds, handles>>' = <<shm, fds, handles>>]_vars

\* C10: an Open has failed because the name was not registered
C10_Witness ==
  \E p \in Procs :
    /\ pc[p] = "idle"
    /\ err[p] = Errorf("shm_open() failed with error", "ENOENT")

\* nm is the name of a handle CreateTemp returned, which was stored through,
\* then closed, and not unlinked
WrittenAndClosed(nm) ==
  /\ nm \in DOMAIN shm
  /\ \E k \in 1..shm[nm].size : shm[nm].data[k] # 0
  /\ \E x \in Created :
       LET h == handles[x[1]][x[2]]
       IN  Name(h) = nm /\ h.f.closed /\ ~h.unlinked

\* C11: an Open of the name of a handle of CreateTemp that was written through
\* and closed, not unlinked, once it has its descriptor, returns a handle
\* whose Slice() holds exactly the bytes of the object, those written; it
\* fails only when mmap runs out of memory.
C11_RoundTrip ==
  [][\A p \in Procs :
       (/\ Returns(p, "Open")
        /\ pc[p] \in {"stat", "mmap"}
        /\ WrittenAndClosed(loc[p].name))
       => IF err'[p] = NilErr
          THEN LET h == handles'[p][Len(handles'[p])]
               IN  /\ Len(handles'[p]) = Len(handles[p]) + 1
                   /\ ~Slice(h).nil
                   /\ Slice(h).name = loc[p].name
                   /\ Slice(h).len = shm[loc[p].name].size
                   /\ shm'[loc[p].name] = shm[loc[p].name]
          ELSE err'[p].wraps = "ENOMEM"]_vars

\* C12: a handle whose file Close has closed, whatever Close returned and
\* whatever was called on the handle since, has a nil Slice().
C12_ClosedHidesRegion ==
  \A p \in Procs : \A i \in 1..Len(handles[p]) :
    handles[p][i].f.closed => Slice(handles[p][i]).nil

\* C12: a handle was closed, closed again with an error, and its Slice()
\* is nil
C12_Witness ==
  \E p \in Procs : \E i \in 1..Len(handles[p]) :
    /\ handles[p][i].f.closed
    /\ Slice(handles[p][i]).nil
    /\ pc[p] = "idle"
    /\ err[p] = PathError("close", Name(handles[p][i]), "ErrClosed")

\* the system calls that are retried on EINTR
RetriedCalls == {"shm_open_excl", "shm_open_ro", "ftruncate", "shm_unlink"}

\* C13: no operation returns an error whose cause is EINTR; a caller whose
\* system call was interrupted stands at that same call, which can complete
\* as it could before; and the interruption changed nothing of the kernel's,
\* the caller's or the handles' state.
C13_EintrRetried ==
  /\ [](\A p \in Procs :
         /\ err[p].wraps # "EINTR"
         /\ loc[p].intr
            => /\ pc[p] \in RetriedCalls
               /\ ENABLED ((CreateStep(p) \/ OtherStep(p)) /\ pc'[p] # pc[p]))
  /\ [][\A p \in Procs :
          (Steps(p) /\ pc'[p] = pc[p])
          => /\ pc[p] \in RetriedCalls
             /\ loc'[p] = [loc[p] EXCEPT !.intr = TRUE]
             /\ <<shm, fsys, fds, vm, handles, err>>' = <<shm, fsys, fds, vm, handles, err>>]_vars

\* C13: the ftruncate of a CreateTemp was interrupted, after its shm_open had
\* created the object, and is about to be called again
C13_Witness ==
  \E p \in Procs :
    /\ pc[p] = "ftruncate"
    /\ loc[p].intr
    /\ loc[p].f.name \in DOMAIN shm
    /\ err[p] = NilErr

\* C14: a caller all of whose handles have been closed has no mapping left
\* in its address space.
C14_CloseUnmaps ==
  \A p \in Procs :
    (/\ pc[p] = "idle"
     /\ Len(handles[p]) > 0
     /\ \A i \in 1..Len(handles[p]) : handles[p][i].f.closed)
    => vm[p] = {}

\* C15: at every shm_open of CreateTemp, however many candidates were
\* registered before, the call can fail with another error than "already
\* exists", and it then returns that error at once, leaving everything as it
\* was; a further candidate is drawn only when the name was registered.
C15_OtherErrorFailsAtOnce ==
  /\ [](\A p \in Procs :
         pc[p] = "shm_open_excl"
         => ENABLED (/\ CreateStep(p)
                     /\ pc'[p] = "idle"
                     /\ err'[p] = Errorf("shm_open() failed with error", "EMFILE")))
  /\ [][\A p \in Procs :
          (pc[p] = "shm_open_excl" /\ pc'[p] # pc[p])
          => /\ pc'[p] = "loop" => loc[p].name \in DOMAIN shm
             /\ (pc'[p] = "idle" /\ err'[p].wraps = "EMFILE")
                => /\ err'[p] = Errorf("shm_open() failed with error", "EMFILE")
                   /\ <<shm, fsys, fds, vm, handles>>' = <<shm, fsys, fds, vm, handles>>]_vars

\* C15: a CreateTemp has returned the error of an shm_open that failed with
\* EMFILE, every candidate of its pattern being registered
C15_Witness ==
  \E p \in Procs :
    /\ pc[p] = "idle"
    /\ err[p] = Errorf("shm_open() failed with error", "EMFILE")
    /\ OpenNames \subseteq DOMAIN shm

\* C16: when Open returns an error after it got its descriptor, at the stat
\* or at the mapping, nothing of its name has been removed or altered: the
\* shared-memory namespace and the filesystem are as they were.
C16_FailedOpenKeeps ==
  [][\A p \in Procs :
       (/\ Returns(p, "Open")
        /\ pc[p] \in {"stat", "mmap"}
        /\ err'[p] # NilErr)
       => /\ shm' = shm
          /\ loc[p].name \in DOMAIN fsys => loc[p].name \in DOMAIN fsys']_vars

\* C17: a handle whose unlinked flag is set has had a removal system call
\* made for its name, which succeeded; and a flag that is set stays set.
C17_UnlinkedMeansRemoved ==
  /\ [](\A p \in Procs : \A i \in 1..Len(handles[p]) :
         handles[p][i].unlinked
         => /\ \E k \in 1..Len(handles[p][i].traps) :
                 handles[p][i].traps[k] = "SYS_SHM_UNLINK"
            /\ ~(pc[p] = "shm_unlink" /\ loc[p].cur = i))
  /\ [][\A p \in Procs : \A i \in 1..Len(handles[p]) :
          handles[p][i].unlinked => handles'[p][i].unlinked]_vars

\* nm is made of the required prefix, the part of pat before its last "*"
\* (all of pat when it has none), 1 to 8 lowercase hexadecimal digits that
\* begin with "0" only when "0" is all of them, and the part of pat after
\* that "*"; and it is not longer than SHM_NAME_MAX
WellFormedName(pat, nm) ==
  \E j \in 0..Len(pat) :
    /\ IF j = 0 THEN \A k \in 1..Len(pat) : pat[k] # "*"
       ELSE pat[j] = "*" /\ \A k \in (j+1)..Len(pat) : pat[k] # "*"
    /\ LET pre == IF j = 0 THEN pat ELSE SubSeq(pat, 1, j - 1)
           suf == IF j = 0 THEN <<>> ELSE SubSeq(pat, j + 1, Len(pat))
           lead == Len(SHM_REQUIRED_PREFIX) + Len(pre)
           n == Len(nm) - lead - Len(suf)
           h == SubSeq(nm, lead + 1, lead + n)
       IN  /\ n \in 1..8
           /\ SubSeq(nm, 1, lead) = SHM_REQUIRED_PREFIX \o pre
           /\ SubSeq(nm, lead + n + 1, Len(nm)) = suf
           /\ \A k \in 1..n :
                h[k] \in {"0","1","2","3","4","5","6","7","8","9","a","b","c","d","e","f"}
           /\ n > 1 => h[1] # "0"
    /\ Len(nm) <= SHM_NAME_MAX

\* C18: the name CreateTemp passes to shm_open, at every round of its loop,
\* and the name of the file it goes on with, which is the Name() of the
\* handle it returns, are well formed for its pattern.
C18_NameForm ==
  \A p \in Procs :
    /\ pc[p] = "shm_open_excl" => WellFormedName(loc[p].pattern, loc[p].name)
    /\ (loc[p].op = "CreateTemp" /\ pc[p] \in {"ftruncate", "mmap"})
       => WellFormedName(loc[p].pattern, loc[p].f.name)

\* C18: CreateTemp has created an object whose name is as long as
\* SHM_NAME_MAX allows, from the longest pattern a digit still fits
C18_Witness ==
  \E p \in Procs :
    /\ pc[p] = "mmap"
    /\ Len(loc[p].f.name) = SHM_NAME_MAX
    /\ loc[p].f.name \in DOMAIN shm

\* C20: after the split of a pattern without separator, prefix (less the
\* required prefix put before it) and suffix are these: with a "*" in the
\* pattern, prefix, "*" and suffix make the pattern and suffix has no "*";
\* with none, prefix is the pattern and suffix is empty.
C20_SplitAtLastStar ==
  \A p \in Procs :
    pc[p] = "loop"
    => LET pat == loc[p].pattern
           req == Len(SHM_REQUIRED_PREFIX)
           pre == SubSeq(loc[p].prefix, req + 1, Len(loc[p].prefix))
           suf == loc[p].suffix
       IN  /\ SubSeq(loc[p].prefix, 1, req) = SHM_REQUIRED_PREFIX
           /\ IF \E k \in 1..Len(pat) : pat[k] = "*"
              THEN /\ pre \o <<"*">> \o suf = pat
                   /\ \A k \in 1..Len(suf) : suf[k] # "*"
              ELSE pre = pat /\ suf = <<>>

\* C20: a pattern with two wildcards was split at the second
C20_Witness ==
  \E p \in Procs :
    /\ pc[p] = "loop"
    /\ loc[p].pattern = <<"*", "k", "*">>
    /\ loc[p].prefix = SHM_REQUIRED_PREFIX \o <<"*", "k">>
    /\ loc[p].suffix = <<>>

\* C19: when Unlink returns, the caller's open descriptors are those it had
\* when it called, and the file and the region of the handle are what they
\* were.
C19_UnlinkFrame ==
  [][\A p \in Procs :
       Returns(p, "Unlink")
       => /\ fds'[p] = loc[p].fds0
          /\ handles'[p][loc[p].cur].f = handles[p][loc[p].cur].f
          /\ handles'[p][loc[p].cur].region = handles[p][loc[p].cur].region]_vars

====
